---- MODULE Spec2Model ----
(***************************************************************************)
(* Model of hylo-jupiter/src/util.rs: the quoting helpers of the Hylo      *)
(* Jupiter adapter.  Every function of the file is a pure function of its  *)
(* arguments; a behaviour of the model is one call: Init draws the         *)
(* function and its arguments, the function's action applies it and        *)
(* records the returned value together with the collaborator calls made.   *)
(***************************************************************************)
EXTENDS Integers, Naturals, Sequences, FiniteSets, TLC

VARIABLES pc, fn, args, result, calls, sent

vars == <<pc, fn, args, result, calls, sent>>

----------------------------------------------------------------------------
(* Bounds of the model *)

\* largest u64 magnitude handed to fee_pct_decimal directly
MaxMag == 100
\* largest amount magnitude in operation records and swap parameters
MaxAmt == 2
\* fee magnitudes of operation records range over 0..MaxOpFee and MaxMag
MaxOpFee == 4
\* number of fractional digits of the decimal type (28 in rust_decimal)
MaxScale == 3
\* account data holds at most MaxLen bytes
MaxLen == 3

----------------------------------------------------------------------------
(* Result<T>, Option<T> *)

Ok(v) == [ok |-> TRUE, val |-> v]
Err(m) == [ok |-> FALSE, err |-> m]
Some(v) == [some |-> TRUE, val |-> v]
None == [some |-> FALSE]
Pending == [pending |-> TRUE]

RECURSIVE Pow10(_)
Pow10(n) == IF n = 0 THEN 1 ELSE 10 * Pow10(n - 1)

----------------------------------------------------------------------------
(* UFix64<Exp>: the exponent is a type parameter, the value is `bits` *)

UFix64_new(n) == [bits |-> n]

----------------------------------------------------------------------------
(* rust_decimal::Decimal, scaled down: a mantissa of at most MantMax      *)
(* (2^96 - 1, about 7.9 * 10^28) and a scale of at most MaxScale (28)      *)

MantMax == (79 * Pow10(MaxScale)) \div 10

Decimal(m, s) == [mant |-> m, scale |-> s]
ZERO == Decimal(0, 0)
ONE == Decimal(1, 0)

\* numeric comparison of two decimals
DecLe(a, b) == a.mant * Pow10(b.scale) <= b.mant * Pow10(a.scale)
DecEq(a, b) == a.mant * Pow10(b.scale) = b.mant * Pow10(a.scale)

\* Decimal::from_u64: None when the value does not fit the mantissa
from_u64(n) == IF n <= MantMax THEN Some(Decimal(n, 0)) ELSE None

\* round-half-even quotient of two naturals, as Decimal division rounds
RoundDiv(n, d) ==
  LET q == n \div d
      r == n % d
  IN IF 2 * r > d \/ (2 * r = d /\ q % 2 = 1) THEN q + 1 ELSE q

\* Decimal::checked_div: None on a zero divisor or an overflow; the
\* quotient is exact at the smallest scale that makes it so, else rounded
\* at the largest scale whose mantissa fits
\* checked_div that truncates the quotient instead of rounding it
checked_div_truncating(num, denom) ==
  IF denom.mant = 0 THEN None
  ELSE
    LET n == num.mant * Pow10(denom.scale)
        d == denom.mant * Pow10(num.scale)
        fits == {s \in 0..MaxScale : (n * Pow10(s)) \div d <= MantMax}
    IN IF fits # {}
       THEN LET s == CHOOSE x \in fits : \A y \in fits : y <= x
            IN Some(Decimal((n * Pow10(s)) \div d, s))
       ELSE None

checked_div(num, denom) ==
  IF denom.mant = 0 THEN None
  ELSE
    LET n == num.mant * Pow10(denom.scale)
        d == denom.mant * Pow10(num.scale)
        exact == {s \in 0..MaxScale :
                    /\ (n * Pow10(s)) % d = 0
                    /\ (n * Pow10(s)) \div d <= MantMax}
        fits == {s \in 0..MaxScale : RoundDiv(n * Pow10(s), d) <= MantMax}
    IN IF exact # {}
       THEN LET s == CHOOSE x \in exact : \A y \in exact : x <= y
            IN Some(Decimal((n * Pow10(s)) \div d, s))
       ELSE IF fits # {}
       THEN LET s == CHOOSE x \in fits : \A y \in fits : y <= x
            IN Some(Decimal(RoundDiv(n * Pow10(s), d), s))
       ELSE None

----------------------------------------------------------------------------
(* fee_pct_decimal *)

ArithmeticError == <<"Arithmetic error in fee_pct_decimal">>

\* fee_pct_decimal without the zero-base short-circuit
fee_pct_decimal_no_zero_check(fees_extracted, fee_base) ==
  LET num == from_u64(fees_extracted.bits)
      denom == from_u64(fee_base.bits)
      zipped == num.some /\ denom.some
      q == IF zipped THEN checked_div(num.val, denom.val) ELSE None
  IN [ret |-> IF q.some THEN Ok(q.val) ELSE Err(ArithmeticError),
      calls |-> <<"from_u64", "from_u64">> \o
                (IF zipped THEN <<"checked_div">> ELSE <<>>)]

\* fee_pct_decimal dividing the base by the fee
fee_pct_decimal_inverted(fees_extracted, fee_base) ==
  IF fee_base = UFix64_new(0)
  THEN [ret |-> Ok(ZERO), calls |-> <<>>]
  ELSE
    LET num == from_u64(fee_base.bits)
        denom == from_u64(fees_extracted.bits)
        zipped == num.some /\ denom.some
        q == IF zipped THEN checked_div(num.val, denom.val) ELSE None
    IN [ret |-> IF q.some THEN Ok(q.val) ELSE Err(ArithmeticError),
        calls |-> <<"from_u64", "from_u64">> \o
                  (IF zipped THEN <<"checked_div">> ELSE <<>>)]

fee_pct_decimal(fees_extracted, fee_base) ==
  IF fee_base = UFix64_new(0)
  THEN [ret |-> Ok(ZERO), calls |-> <<>>]
  ELSE
    LET num == from_u64(fees_extracted.bits)
        denom == from_u64(fee_base.bits)
        zipped == num.some /\ denom.some
        q == IF zipped THEN checked_div(num.val, denom.val) ELSE None
    IN [ret |-> IF q.some THEN Ok(q.val) ELSE Err(ArithmeticError),
        calls |-> <<"from_u64", "from_u64">> \o
                  (IF zipped THEN <<"checked_div">> ELSE <<>>)]

----------------------------------------------------------------------------
(* operation_to_quote *)

\* operation_to_quote reporting the fee base as the fee amount
operation_to_quote_fee_base(op) ==
  LET f == fee_pct_decimal(op.fee_amount, op.fee_base)
  IN [ret |-> IF f.ret.ok
              THEN Ok([in_amount |-> op.in_amount.bits,
                       out_amount |-> op.out_amount.bits,
                       fee_amount |-> op.fee_base.bits,
                       fee_mint |-> op.fee_mint,
                       fee_pct |-> f.ret.val])
              ELSE f.ret,
      calls |-> <<"fee_pct_decimal">> \o f.calls]

operation_to_quote(op) ==
  LET f == fee_pct_decimal(op.fee_amount, op.fee_base)
  IN [ret |-> IF f.ret.ok
              THEN Ok([in_amount |-> op.in_amount.bits,
                       out_amount |-> op.out_amount.bits,
                       fee_amount |-> op.fee_amount.bits,
                       fee_mint |-> op.fee_mint,
                       fee_pct |-> f.ret.val])
              ELSE f.ret,
      calls |-> <<"fee_pct_decimal">> \o f.calls]

----------------------------------------------------------------------------
(* quote: `out` is what state.output::<IN, OUT>(..) answers *)

Mints == {"HYUSD", "JITOSOL"}
ProtocolStates == {"S1", "S2"}
OpFees == (0..MaxOpFee) \cup {MaxMag}

OperationOutputs ==
  [in_amount : {UFix64_new(n) : n \in 0..MaxAmt},
   out_amount : {UFix64_new(n) : n \in 0..MaxAmt},
   fee_amount : {UFix64_new(n) : n \in OpFees},
   fee_base : {UFix64_new(n) : n \in OpFees},
   fee_mint : Mints]

\* TokenOperation::output of the protocol state: an operation record or a
\* failure; nothing relates fee_amount to fee_base in the record
output(state, amount) ==
  {Ok(op) : op \in OperationOutputs} \cup
  {Err(<<e>>) : e \in {"Quote math", "Invalid state"}}

\* quote replacing the error of the protocol state by one of its own
quote_own_error(state, amount, out) ==
  IF out.ok
  THEN LET q == operation_to_quote(out.val)
       IN [ret |-> q.ret,
           calls |-> <<"output", "operation_to_quote">> \o q.calls,
           sent |-> <<UFix64_new(amount)>>]
  ELSE [ret |-> Err(<<"Quote failed">>), calls |-> <<"output">>,
        sent |-> <<UFix64_new(amount)>>]

quote(state, amount, out) ==
  IF out.ok
  THEN LET q == operation_to_quote(out.val)
       IN [ret |-> q.ret,
           calls |-> <<"output", "operation_to_quote">> \o q.calls,
           sent |-> <<UFix64_new(amount)>>]
  ELSE [ret |-> out, calls |-> <<"output">>,
        sent |-> <<UFix64_new(amount)>>]

----------------------------------------------------------------------------
(* account_map_get, account_spl_get *)

Keys == {"K1", "K2"}
Byte == {0, 1, 2}
AccountDatas == UNION {[1..n -> Byte] : n \in 0..MaxLen}
AccountMaps ==
  UNION {[S -> [data : AccountDatas]] : S \in SUBSET Keys}

\* AccountDeserialize of the target shape: a discriminator, then one
\* borsh-encoded byte; trailing bytes are left unread
DISCRIMINATOR == <<1>>

try_deserialize(bytes) ==
  IF Len(bytes) < Len(DISCRIMINATOR)
  THEN Err(<<"AccountDiscriminatorNotFound">>)
  ELSE IF SubSeq(bytes, 1, Len(DISCRIMINATOR)) # DISCRIMINATOR
  THEN Err(<<"AccountDiscriminatorMismatch">>)
  ELSE IF Len(bytes) < Len(DISCRIMINATOR) + 1
  THEN Err(<<"AccountDidNotDeserialize">>)
  ELSE Ok([value |-> bytes[Len(DISCRIMINATOR) + 1]])

\* Pack + IsInitialized of the target shape: exactly LEN bytes, the first
\* the initialized flag
PackLayout == <<"is_initialized", "value">>
LEN == Len(PackLayout)

unpack_unchecked(bytes) ==
  IF Len(bytes) # LEN THEN Err(<<"InvalidAccountData">>)
  ELSE IF bytes[1] \notin {0, 1} THEN Err(<<"InvalidAccountData">>)
  ELSE Ok([is_initialized |-> bytes[1] = 1, value |-> bytes[2]])

\* unpack without the initialized check
unpack_any(bytes) == unpack_unchecked(bytes)

unpack(bytes) ==
  LET value == unpack_unchecked(bytes)
  IN IF ~value.ok THEN value
     ELSE IF value.val.is_initialized THEN value
     ELSE Err(<<"UninitializedAccount">>)

\* account_map_get decoding empty data for an absent key
account_map_get_default(account_map, key) ==
  IF key \notin DOMAIN account_map
  THEN [ret |-> try_deserialize(<<>>), calls |-> <<"get", "try_deserialize">>]
  ELSE [ret |-> try_deserialize(account_map[key].data),
        calls |-> <<"get", "try_deserialize">>]

account_map_get(account_map, key) ==
  IF key \notin DOMAIN account_map
  THEN [ret |-> Err(<<"Account not found", key>>), calls |-> <<"get">>]
  ELSE [ret |-> try_deserialize(account_map[key].data),
        calls |-> <<"get", "try_deserialize">>]

\* account_spl_get whose not-found error leaves the key out
account_spl_get_no_key(account_map, key) ==
  IF key \notin DOMAIN account_map
  THEN [ret |-> Err(<<"Account not found">>), calls |-> <<"get">>]
  ELSE [ret |-> unpack(account_map[key].data),
        calls |-> <<"get", "unpack">>]

account_spl_get(account_map, key) ==
  IF key \notin DOMAIN account_map
  THEN [ret |-> Err(<<"Account not found", key>>), calls |-> <<"get">>]
  ELSE [ret |-> unpack(account_map[key].data),
        calls |-> <<"get", "unpack">>]

----------------------------------------------------------------------------
(* validate_swap_params *)

SwapParamsSet ==
  [swap_mode : {"ExactIn", "ExactOut"},
   in_amount : 0..MaxAmt,
   source_mint : Mints,
   destination_mint : Mints,
   missing_dynamic_accounts_as_default : BOOLEAN]

\* validate_swap_params without the dynamic-accounts check
validate_swap_params_mode_only(params) ==
  IF params.swap_mode = "ExactOut"
  THEN Err(<<"ExactOut not supported">>)
  ELSE Ok(params)

\* validate_swap_params checking the flag before the mode
validate_swap_params_flag_first(params) ==
  IF params.missing_dynamic_accounts_as_default
  THEN Err(<<"Dynamic accounts replacement not supported">>)
  ELSE IF params.swap_mode = "ExactOut"
  THEN Err(<<"ExactOut not supported">>)
  ELSE Ok(params)

validate_swap_params(params) ==
  IF params.swap_mode = "ExactOut"
  THEN Err(<<"ExactOut not supported">>)
  ELSE IF params.missing_dynamic_accounts_as_default
  THEN Err(<<"Dynamic accounts replacement not supported">>)
  ELSE Ok(params)

----------------------------------------------------------------------------
(* One call: the arguments, then the function applied to them *)

FeeArgs ==
  [fees_extracted : {UFix64_new(n) : n \in 0..MaxMag},
   fee_base : {UFix64_new(n) : n \in 0..MaxMag}]
OpArgs == [op : OperationOutputs]
QuoteArgs == [state : ProtocolStates, amount : 0..MaxAmt]
AccountArgs == [account_map : AccountMaps, key : Keys]
ParamsArgs == [params : SwapParamsSet]

Init ==
  /\ pc = "ready"
  /\ result = Pending
  /\ calls = <<>>
  /\ sent = <<>>
  /\ \/ fn = "fee_pct_decimal" /\ args \in FeeArgs
     \/ fn = "operation_to_quote" /\ args \in OpArgs
     \/ fn = "quote" /\ args \in QuoteArgs
     \/ fn = "account_map_get" /\ args \in AccountArgs
     \/ fn = "account_spl_get" /\ args \in AccountArgs
     \/ fn = "validate_swap_params" /\ args \in ParamsArgs

FeePctDecimal ==
  /\ pc = "ready" /\ fn = "fee_pct_decimal"
  /\ LET r == fee_pct_decimal(args.fees_extracted, args.fee_base)
     IN result' = r.ret /\ calls' = r.calls
  /\ pc' = "done"
  /\ UNCHANGED <<fn, args, sent>>

OperationToQuote ==
  /\ pc = "ready" /\ fn = "operation_to_quote"
  /\ LET r == operation_to_quote(args.op)
     IN result' = r.ret /\ calls' = r.calls
  /\ pc' = "done"
  /\ UNCHANGED <<fn, args, sent>>

\* the answer of the protocol state is kept in args.out for reference
QuoteCall ==
  /\ pc = "ready" /\ fn = "quote"
  /\ \E out \in output(args.state, args.amount) :
       LET r == quote(args.state, args.amount, out)
       IN /\ result' = r.ret
          /\ calls' = r.calls
          /\ sent' = r.sent
          /\ args' = [state |-> args.state, amount |-> args.amount,
                      out |-> out]
  /\ pc' = "done"
  /\ UNCHANGED fn

AccountMapGet ==
  /\ pc = "ready" /\ fn = "account_map_get"
  /\ LET r == account_map_get(args.account_map, args.key)
     IN result' = r.ret /\ calls' = r.calls
  /\ pc' = "done"
  /\ UNCHANGED <<fn, args, sent>>

AccountSplGet ==
  /\ pc = "ready" /\ fn = "account_spl_get"
  /\ LET r == account_spl_get(args.account_map, args.key)
     IN result' = r.ret /\ calls' = r.calls
  /\ pc' = "done"
  /\ UNCHANGED <<fn, args, sent>>

ValidateSwapParams ==
  /\ pc = "ready" /\ fn = "validate_swap_params"
  /\ result' = validate_swap_params(args.params)
  /\ pc' = "done"
  /\ UNCHANGED <<fn, args, calls, sent>>

Next ==
  \/ FeePctDecimal
  \/ OperationToQuote
  \/ QuoteCall
  \/ AccountMapGet
  \/ AccountSplGet
  \/ ValidateSwapParams

Spec == Init /\ [][Next]_vars

Returned(f) == pc = "done" /\ fn = f

----------------------------------------------------------------------------
(* Properties *)

Range(seq) == {seq[i] : i \in DOMAIN seq}
InUnit(d) == DecLe(ZERO, d) /\ DecLe(d, ONE)

ExactOutError == <<"ExactOut not supported">>
DynamicAccountsError == <<"Dynamic accounts replacement not supported">>

\* C1: validate_swap_params has three outcomes: ExactOut fails with
\* "ExactOut not supported"; ExactIn with the default-fill flag set fails
\* with the dynamic-accounts error; ExactIn with the flag clear returns the
\* very parameters it was given.
C1_ValidateOutcomes ==
  Returned("validate_swap_params") =>
    LET p == args.params
    IN /\ p.swap_mode = "ExactOut" => result = Err(ExactOutError)
       /\ p.swap_mode = "ExactIn" /\ p.missing_dynamic_accounts_as_default
            => result = Err(DynamicAccountsError)
       /\ p.swap_mode = "ExactIn" /\ ~p.missing_dynamic_accounts_as_default
            => result = Ok(p)

C1_Witness ==
  /\ Returned("validate_swap_params")
  /\ args.params.swap_mode = "ExactIn"
  /\ args.params.missing_dynamic_accounts_as_default
  /\ result = Err(DynamicAccountsError)

\* C2: with a fee base of magnitude 0, fee_pct_decimal returns Ok(0) for
\* every fee magnitude, without converting or dividing anything.
C2_ZeroBase ==
  Returned("fee_pct_decimal") /\ args.fee_base.bits = 0 =>
    /\ result = Ok(ZERO)
    /\ "checked_div" \notin Range(calls)

C2_Witness ==
  /\ Returned("fee_pct_decimal")
  /\ args.fee_base.bits = 0
  /\ args.fees_extracted.bits = MaxMag
  /\ result = Ok(ZERO)

\* C3: for a nonzero fee base B and a fee F <= B, fee_pct_decimal succeeds
\* with F/B: exactly when F/B has at most MaxScale fractional digits (5/100
\* is 0.05), else to within half a unit of the last digit; the result lies
\* in [0,1].
C3_Quotient ==
  Returned("fee_pct_decimal") /\ args.fee_base.bits # 0
                              /\ args.fees_extracted.bits <= args.fee_base.bits =>
    LET F == args.fees_extracted.bits
        B == args.fee_base.bits
        err == result.val.mant * B - F * Pow10(result.val.scale)
    IN /\ result.ok
       /\ result.val.scale \in 0..MaxScale
       /\ 2 * err <= B /\ -2 * err <= B
       /\ (F * Pow10(MaxScale)) % B = 0 => err = 0
       /\ InUnit(result.val)
       /\ F = 5 /\ B = 100 => result.val = Decimal(5, 2)

C3_Witness ==
  /\ Returned("fee_pct_decimal")
  /\ args.fees_extracted.bits = 5
  /\ args.fee_base.bits = 100
  /\ result = Ok(Decimal(5, 2))

\* C4: a Quote returned by operation_to_quote carries the in, out and fee
\* magnitudes and the fee mint of the operation record unchanged, and the
\* fee percentage fee_pct_decimal computes for its fee amount and fee base;
\* when fee_pct_decimal fails, operation_to_quote fails with that error.
C4_QuoteAssembly ==
  Returned("operation_to_quote") =>
    LET op == args.op
        f == fee_pct_decimal(op.fee_amount, op.fee_base).ret
    IN /\ result.ok = f.ok
       /\ result.ok =>
            /\ result.val.in_amount = op.in_amount.bits
            /\ result.val.out_amount = op.out_amount.bits
            /\ result.val.fee_amount = op.fee_amount.bits
            /\ result.val.fee_mint = op.fee_mint
            /\ result.val.fee_pct = f.val
       /\ ~f.ok => result = f

C4_Witness ==
  /\ Returned("operation_to_quote")
  /\ result.ok
  /\ args.op.in_amount.bits # args.op.out_amount.bits
  /\ args.op.fee_amount.bits # args.op.fee_base.bits
  /\ args.op.fee_amount.bits # 0
  /\ result.val.fee_amount = args.op.fee_amount.bits

\* the operation record a returned Quote was assembled from
QuotedOp == IF fn = "quote" THEN args.out.val ELSE args.op
QuoteReturned ==
  /\ Returned("operation_to_quote") \/ Returned("quote")
  /\ result.ok

AccountReturned ==
  Returned("account_map_get") \/ Returned("account_spl_get")
Absent == args.key \notin DOMAIN args.account_map
Decoder == IF fn = "account_map_get" THEN "try_deserialize" ELSE "unpack"

\* C6: a lookup of a key the account map does not contain fails, in both
\* variants, with an "Account not found" error naming the key, and decodes
\* nothing.
C6_NotFound ==
  AccountReturned /\ Absent =>
    /\ ~result.ok
    /\ result.err[1] = "Account not found"
    /\ args.key \in Range(result.err)
    /\ Decoder \notin Range(calls)

C6_Witness ==
  /\ Returned("account_map_get")
  /\ Absent
  /\ DOMAIN args.account_map # {}
  /\ result = Err(<<"Account not found", args.key>>)

\* the stored bytes have the target layout of the variant
AnchorLayout(bytes) ==
  Len(bytes) >= 2 /\ bytes[1] = DISCRIMINATOR[1]
PackedLayout(bytes) ==
  Len(bytes) = 2 /\ bytes[1] = 1
StoredBytes == args.account_map[args.key].data

\* C7: a lookup of a key whose stored bytes do not match the target layout
\* (for the packed variant, also bytes whose initialized flag is clear)
\* fails with an error other than "Account not found"; when the bytes match,
\* the call returns the decoded value.
C7_Decode ==
  AccountReturned /\ ~Absent =>
    LET matches == IF fn = "account_map_get" THEN AnchorLayout(StoredBytes)
                   ELSE PackedLayout(StoredBytes)
    IN /\ matches => result.ok /\ result.val.value = StoredBytes[2]
       /\ ~matches => ~result.ok /\ result.err[1] # "Account not found"

C7_Witness ==
  /\ Returned("account_spl_get")
  /\ ~Absent
  /\ StoredBytes = <<0, 2>>
  /\ result = Err(<<"UninitializedAccount">>)

\* C8 as claimed: every error of account_map_get and account_spl_get, a
\* lookup error or a decode error, carries the key that was looked up.
C8_ErrorsCarryKey ==
  AccountReturned /\ ~result.ok => args.key \in Range(result.err)

\* C8: a lookup error of account_map_get and account_spl_get carries the
\* key that was looked up; a decode error is the error of the decoder alone
\* and does not carry the key.
C8_OnlyLookupErrorsCarryKey ==
  AccountReturned /\ ~result.ok =>
    /\ Absent => args.key \in Range(result.err)
    /\ ~Absent => /\ args.key \notin Range(result.err)
                  /\ result = IF fn = "account_map_get"
                              THEN try_deserialize(StoredBytes)
                              ELSE unpack(StoredBytes)

C8_Witness ==
  /\ Returned("account_spl_get")
  /\ Absent
  /\ ~result.ok
  /\ args.key \in Range(result.err)

\* C9: quote asks the protocol state for its output once, with the given
\* magnitude; a failure of that operation is the failure of quote; a
\* record it returns is handed to operation_to_quote, whose result is the
\* result of quote.
C9_QuoteDelegates ==
  Returned("quote") =>
    /\ sent = <<UFix64_new(args.amount)>>
    /\ Cardinality({i \in DOMAIN calls : calls[i] = "output"}) = 1
    /\ ~args.out.ok => result = args.out /\ calls = <<"output">>
    /\ args.out.ok => result = operation_to_quote(args.out.val).ret

C9_Witness ==
  /\ Returned("quote")
  /\ ~args.out.ok
  /\ result = Err(<<"Invalid state">>)
  /\ args.amount > 0

Outcome(r) == IF r.ok THEN <<"ok">> ELSE r.err

\* C10: validate_swap_params checks the swap mode first: ExactOut together
\* with the default-fill flag fails with "ExactOut not supported"; and the
\* outcome is the same for all parameters with the same mode and flag.
C10_ModeFirst ==
  Returned("validate_swap_params") =>
    LET p == args.params
    IN /\ p.swap_mode = "ExactOut" /\ p.missing_dynamic_accounts_as_default
            => result = Err(ExactOutError)
       /\ \A q \in SwapParamsSet :
            /\ q.swap_mode = p.swap_mode
            /\ q.missing_dynamic_accounts_as_default
                 = p.missing_dynamic_accounts_as_default
            => Outcome(validate_swap_params(q)) = Outcome(result)

C10_Witness ==
  /\ Returned("validate_swap_params")
  /\ args.params.swap_mode = "ExactOut"
  /\ args.params.missing_dynamic_accounts_as_default
  /\ result = Err(ExactOutError)

====
